---- MODULE Spec2Model ----
(***************************************************************************)
(* Job orchestration core of sodmaster: the job stores (app/infra), the    *)
(* feature routes built on them (a2a, cgo, webdev, mktg) and their         *)
(* background job functions, on a single cooperative event loop.           *)
(***************************************************************************)
EXTENDS Integers, Sequences, FiniteSets, TLC

(* ------------------------------ bounds -------------------------------- *)
\* number of submissions (POST requests) in one behaviour, to any route
MaxRequests == 2
\* number of submissions in one behaviour that only uses the mktg routes
MaxMktgRequests == 3
\* the latest reading of time.monotonic() a behaviour reaches
MaxClock == 2
\* number of direct store calls in one behaviour of the store specification
MaxCalls == 4

(* ------------------------- program constants -------------------------- *)
\* stop_after_attempt(3)
MaxAttempts == 3
\* the fallback 60.0 of _resolve_slo_threshold
FallbackSloSec == 60

Features == {"a2a", "cgo", "webdev", "plan", "publish"}
\* caller-chosen job ids (job_id / idempotency_key)
JobIds == {"j1", "j2"}
\* job_id omitted, null or the empty string: all falsy in the handlers
NoId == ""
\* str(uuid4()) of the n-th request: distinct from each other and from JobIds
Uuids == <<"u1", "u2", "u3", "u4">>
\* results a crew's kickoff returns
Values == {"v1", "v2"}
\* messages of the exceptions a unit of work raises
Causes == {"boom", "oops"}
\* values os.getenv finds for SLO_JOB_SEC when a run starts
SloEnvValues == {"unset", "1", "abc"}
\* commands of an A2A request
Commands == {"ping", "noop", "unknown"}

(* ------------------------------ documents ----------------------------- *)
\* Python None
Null == [tag |-> "null", key |-> "", val |-> ""]
\* a JSON object with one key: {key: val}
Doc(k, v) == [tag |-> "doc", key |-> k, val |-> v]
\* the payload document a route passes to create: {"type": ..., body}
Payload(type, jid, arg) == [type |-> type, job_id |-> jid, arg |-> arg]
NullPayload == Payload("null", "", "")
\* a dictionary key that is not present
KeyAbsent == "<absent>"
\* job_store.get returned None
None == [id |-> KeyAbsent, payload |-> NullPayload, status |-> "<none>", result |-> Null]

(* ------------------------- InMemoryJobStore --------------------------- *)
InMemoryGet(jobs_, job_id) ==
    IF job_id \in DOMAIN jobs_ THEN jobs_[job_id] ELSE None

\* a set_status that keeps the earlier result when it is given none
InMemorySetStatusKeepingResult(jobs_, job_id, status, result) ==
    LET job == IF job_id \in DOMAIN jobs_
               THEN jobs_[job_id]
               ELSE [id |-> KeyAbsent, payload |-> NullPayload,
                     status |-> KeyAbsent, result |-> Null]
    IN  (job_id :> [job EXCEPT !.status = status,
                               !.result = IF result = Null THEN @ ELSE result]) @@ jobs_

InMemorySetStatus(jobs_, job_id, status, result) ==
    LET job == IF job_id \in DOMAIN jobs_
               THEN jobs_[job_id]
               ELSE [id |-> KeyAbsent, payload |-> NullPayload,
                     status |-> KeyAbsent, result |-> Null]
    IN  (job_id :> [job EXCEPT !.status = status, !.result = result]) @@ jobs_

InMemoryCreate(jobs_, job_id, payload) ==
    (job_id :> [id |-> job_id, payload |-> payload,
                status |-> "pending", result |-> Null]) @@ jobs_

(* --------------------------- RedisJobStore ---------------------------- *)
\* json.dumps(value, default=str): a value json cannot encode becomes its str()
DumpsValue(v) == IF v.tag = "obj" THEN [v EXCEPT !.tag = "str"] ELSE v

\* RedisJobStore._dumps: the JSON text of a record
Dumps(rec) == [json |-> [rec EXCEPT !.result = DumpsValue(rec.result)]]

\* json.loads of a text written by _dumps
Loads(data) == data.json

Key(job_id) == <<"jobs", job_id>>

RedisGet(redis_, job_id) ==
    IF Key(job_id) \in DOMAIN redis_ THEN Loads(redis_[Key(job_id)]) ELSE None

\* the second half of RedisJobStore.set_status: job is what its get returned
RedisSetStatusWrite(redis_, job_id, got, status, result) ==
    LET job == IF got # None THEN got
               ELSE [id |-> job_id, payload |-> NullPayload,
                     status |-> KeyAbsent, result |-> Null]
    IN  (Key(job_id) :> Dumps([job EXCEPT !.status = status, !.result = result]))
            @@ redis_

RedisCreate(redis_, job_id, payload) ==
    (Key(job_id) :> Dumps([id |-> job_id, payload |-> payload,
                           status |-> "pending", result |-> Null])) @@ redis_

(* ------------------------------- state -------------------------------- *)
VARIABLES
    backend,    \* type of app.state.job_store: "memory" or "redis"
    routes,     \* the feature routes the clients of this behaviour use
    jobs,       \* InMemoryJobStore._jobs
    redis,      \* the key space of the Redis server
    req,        \* per request: the handler's and its background task's locals
    owner,      \* the task the event loop is running (0: none, all suspended)
    clock,      \* time.monotonic()
    alerts,     \* the calls of send_alert, in order
    overlap,    \* job ids submitted again while a submission of them was in flight
    calls,      \* direct store calls made (store specification)
    last,       \* the latest direct store call and what it met
    started,    \* the startup hook ensure_job_store_connection has finished
    pinged,     \* how the ping of the startup hook ended: "", "ok" or "failed"
    environ,    \* os.environ: the webhook variables that hold a URL
    sending,    \* the latest call of send_alert and how it went
    faults,     \* the job store calls of background runs that raised so far
    app_state,  \* app.state.job_store_backend and app.state.redis_connected
    heap,       \* the dict objects a store and its caller share, by identity
    held,       \* the record the caller got from its latest get
    catalog,    \* AuditTrail._c_units: the ids of the registered C-Units
    guardrails, \* GuardrailEngine._guardrails
    subscribers, \* EventBus._subscribers
    history,    \* AuditTrail._history
    tasks,      \* per emit call: its event and the frames of its publish
    published,  \* the calls of EventBus.publish, in order
    delivered,  \* the handler invocations, in order
    emitted     \* the events whose emit or emit_nowait returned, in order

bootVars == <<started, pinged, app_state>>
copyVars == <<heap, held>>
opsVars == <<environ, sending, faults>>
auditVars == <<catalog, guardrails, subscribers, history, tasks, published,
               delivered, emitted>>

vars == <<backend, routes, jobs, redis, req, owner, clock, alerts,
          overlap, calls, last, bootVars, copyVars, opsVars, auditVars>>

ReqIds == DOMAIN req

NoResp == [code |-> 0, status |-> "", job_id |-> "", result |-> Null, field |-> ""]

\* the latest invocation of the unit of work: how it ended and with what
NoTry == [outcome |-> "", val |-> ""]

NewReq == [feature |-> "", jid |-> NoId, arg |-> "", job |-> "", pc |-> "new",
           io |-> "", got |-> None, existing |-> None, resp |-> NoResp,
           scheduled |-> FALSE, attempts |-> 0, tried |-> NoTry, reinvoked |-> FALSE,
           out |-> Null, exc |-> "",
           start |-> 0, threshold |-> 0, writes |-> <<>>,
           escaped |-> FALSE]

NoCall == [op |-> "", id |-> "", payload |-> NullPayload, status |-> "", result |-> Null,
           before |-> None, after |-> None, err |-> ""]

\* the startup hook has run and the configured store answered its ping
Booted ==
    /\ started = TRUE
    /\ pinged = "ok"
    /\ app_state = [job_store_backend |-> backend, redis_connected |-> backend = "redis"]

\* no caller shares objects with the store
NothingShared == heap = <<>> /\ held = None

\* no audit trail is in use
NoAudit ==
    /\ catalog = {}
    /\ guardrails = <<>>
    /\ subscribers = <<>>
    /\ history = <<>>
    /\ tasks = <<>>
    /\ published = <<>>
    /\ delivered = <<>>
    /\ emitted = <<>>

\* no webhook is configured and send_alert has not been called
NoCallSent == [n |-> 0, trigger |-> "", webhooks |-> <<>>, outcomes |-> <<>>,
               requests |-> <<>>, logged |-> <<>>, result |-> FALSE, raised |-> ""]

NoOps == environ = {} /\ sending = NoCallSent /\ faults = 0

\* the program points of a request handler, from its first await to its return
HandlerPcs == {"plan_get", "get", "create", "set_initial"}

Init ==
    /\ backend \in {"memory", "redis"}
    /\ routes = Features
    /\ jobs = <<>>
    /\ redis = <<>>
    /\ req = [r \in 1..MaxRequests |-> NewReq]
    /\ owner = 0
    /\ clock = 0
    /\ alerts = <<>>
    /\ overlap = {}
    /\ calls = 0
    /\ last = NoCall
    /\ Booted
    /\ NothingShared
    /\ NoAudit
    /\ NoOps

(* ------------------------- the shared job store ----------------------- *)
\* await job_store.get(job_id) on app.state.job_store
StoreGet(job_id) ==
    IF backend = "memory" THEN InMemoryGet(jobs, job_id) ELSE RedisGet(redis, job_id)

\* await job_store.create(job_id, payload)
StoreCreate(job_id, payload) ==
    IF backend = "memory"
    THEN jobs' = InMemoryCreate(jobs, job_id, payload) /\ UNCHANGED redis
    ELSE redis' = RedisCreate(redis, job_id, payload) /\ UNCHANGED jobs

\* the write of set_status: the whole call on the in-memory store (one critical
\* section), the SET that follows the GET on the Redis store
StoreSetStatusWrite(r, status, result) ==
    IF backend = "memory"
    THEN jobs' = InMemorySetStatus(jobs, req[r].job, status, result) /\ UNCHANGED redis
    ELSE /\ redis' = RedisSetStatusWrite(redis, req[r].job, req[r].got, status, result)
         /\ UNCHANGED jobs

\* RedisJobStore.set_status is about to send its GET
AtRedisRead(r) == backend = "redis" /\ req[r].io = ""

\* the GET of RedisJobStore.set_status; the task is suspended around it
RedisRead(r) ==
    /\ req' = [req EXCEPT ![r].io = "got", ![r].got = RedisGet(redis, req[r].job)]
    /\ owner' = 0
    /\ UNCHANGED <<bootVars, copyVars, opsVars, auditVars, backend, routes, jobs, redis, clock, alerts, overlap,
                   calls, last>>

\* The event loop runs one task until it suspends. An await on the in-memory
\* store never suspends (its lock is free whenever a task reaches it); an await
\* on the Redis store is network I/O and always does.
Free(r) == owner \in {0, r}
Hold(r) == IF backend = "memory" THEN r ELSE 0

(* --------------------------- request handlers ------------------------- *)
\* the "type" each route writes into the payload it creates the job with
TypeOf(f) ==
    CASE f = "a2a" -> "a2a_command"
      [] f = "cgo" -> "marketing_campaign"
      [] f = "webdev" -> "webdev.generate_site"
      [] f = "plan" -> "mktg.plan"
      [] OTHER -> "mktg.publish"

\* the status the handler writes right after create
InitialStatus(f) == IF f = "cgo" THEN "running" ELSE "accepted"

\* job.get("status", "unknown")
StatusOf(rec) == IF rec.status = KeyAbsent THEN "unknown" ELSE rec.status

\* an empty JSON object
EmptyDoc == Doc("", "")

\* what a handler answers for a job id the store already holds
ReplayResponse(f, jid, existing) ==
    CASE f \in {"a2a", "cgo"} ->
            \* JSONResponse(status_code=HTTP_200_OK, ...)
            [code |-> 200, status |-> StatusOf(existing), job_id |-> jid,
             result |-> existing.result, field |-> "result"]
      [] f \in {"webdev", "plan"} ->
            \* the response model is returned: the route's status_code (202) applies
            [code |-> 202, status |-> StatusOf(existing), job_id |-> jid,
             result |-> existing.result, field |-> "result"]
      [] OTHER ->
            \* PublishResponse(detail=existing.get("result", {})): detail must be a dict
            IF existing.result.tag = "doc"
            THEN [code |-> 202, status |-> StatusOf(existing), job_id |-> jid,
                  result |-> existing.result, field |-> "detail"]
            ELSE [code |-> 500, status |-> "", job_id |-> "", result |-> Null,
                  field |-> ""]

\* what a handler answers after it created and scheduled a job
FreshResponse(f, job_id) ==
    IF f = "publish"
    THEN [code |-> 202, status |-> "accepted", job_id |-> job_id,
          result |-> EmptyDoc, field |-> "detail"]
    ELSE [code |-> 202, status |-> "accepted", job_id |-> job_id,
          result |-> Null, field |-> "result"]

\* HTTPException(409) of publish_campaign
ConflictResponse ==
    [code |-> 409, status |-> "", job_id |-> "", result |-> Null, field |-> ""]

\* what varies in a request body besides job_id: the A2A command, the plan_job_id
ArgsOf(f) ==
    CASE f = "a2a" -> Commands
      [] f = "publish" -> JobIds
      [] OTHER -> {""}

\* a POST arrives: the handler runs up to its first await on the job store
Submit(r) ==
    /\ started
    /\ owner = 0
    /\ req[r].pc = "new"
    /\ IF r = 1 THEN TRUE ELSE req[r - 1].pc # "new"
    /\ \E f \in routes, jid \in JobIds \cup {NoId} : \E arg \in ArgsOf(f) :
        /\ req' = [req EXCEPT ![r] =
              [@ EXCEPT !.feature = f, !.jid = jid, !.arg = arg,
                        !.job = IF jid # NoId THEN jid ELSE Uuids[r],
                        !.pc = IF f = "publish" THEN "plan_get"
                               ELSE IF jid # NoId THEN "get" ELSE "create"]]
        /\ overlap' = overlap \cup
              {i \in {jid} : /\ i # NoId
                             /\ \E q \in ReqIds \ {r} :
                                    req[q].jid = i /\ req[q].pc \in HandlerPcs}
    /\ owner' = Hold(r)
    /\ UNCHANGED <<bootVars, copyVars, opsVars, auditVars, backend, routes, jobs, redis, clock, alerts, calls, last>>

\* publish_campaign: the plan job must exist and be done
PlanGet(r) ==
    /\ Free(r)
    /\ req[r].pc = "plan_get"
    /\ LET plan_record == StoreGet(req[r].arg) IN
       IF plan_record = None \/ StatusOf(plan_record) # "done"
       THEN /\ req' = [req EXCEPT ![r].pc = "end", ![r].resp = ConflictResponse]
            /\ owner' = 0
       ELSE /\ req' = [req EXCEPT ![r].pc =
                          IF req[r].jid # NoId THEN "get" ELSE "create"]
            /\ owner' = Hold(r)
    /\ UNCHANGED <<bootVars, copyVars, opsVars, auditVars, backend, routes, jobs, redis, clock, alerts, overlap,
                   calls, last>>

\* the existence check: existing = await job_store.get(job_id)
Get(r) ==
    /\ Free(r)
    /\ req[r].pc = "get"
    /\ LET existing == StoreGet(req[r].jid) IN
       IF existing # None
       THEN /\ req' = [req EXCEPT ![r].pc = "end", ![r].existing = existing,
                          ![r].resp = ReplayResponse(req[r].feature, req[r].jid, existing)]
            /\ owner' = 0
       ELSE /\ req' = [req EXCEPT ![r].pc = "create"]
            /\ owner' = Hold(r)
    /\ UNCHANGED <<bootVars, copyVars, opsVars, auditVars, backend, routes, jobs, redis, clock, alerts, overlap,
                   calls, last>>

\* await job_store.create(job_id, {...})
Create(r) ==
    /\ Free(r)
    /\ req[r].pc = "create"
    /\ StoreCreate(req[r].job, Payload(TypeOf(req[r].feature), req[r].jid, req[r].arg))
    /\ req' = [req EXCEPT ![r].pc = "set_initial",
                          ![r].writes = Append(@, [status |-> "pending", result |-> Null])]
    /\ owner' = Hold(r)
    /\ UNCHANGED <<bootVars, copyVars, opsVars, auditVars, backend, routes, clock, alerts, overlap, calls, last>>

\* await job_store.set_status(job_id, "accepted" | "running"), then
\* background_tasks.add_task(...) and the 202 response
SetInitial(r) ==
    /\ Free(r)
    /\ req[r].pc = "set_initial"
    /\ IF AtRedisRead(r) THEN RedisRead(r)
       ELSE /\ StoreSetStatusWrite(r, InitialStatus(req[r].feature), Null)
            /\ req' = [req EXCEPT ![r] =
                  [@ EXCEPT !.pc = "bg", !.io = "", !.got = None, !.scheduled = TRUE,
                            !.resp = FreshResponse(req[r].feature, req[r].job),
                            !.writes = Append(@, [status |-> InitialStatus(req[r].feature),
                                                  result |-> Null])]]
            /\ owner' = 0
            /\ UNCHANGED <<bootVars, copyVars, opsVars, auditVars, backend, routes, clock, alerts, overlap, calls, last>>

\* GET <feature>/jobs/{job_id}: the handler is one get and changes no state; it
\* runs when the event loop is free and answers 404 or the stored status
PollAnswer(job_id) ==
    LET job == StoreGet(job_id)
    IN  IF job = None THEN "404" ELSE StatusOf(job)

(* ------------------------- background job functions ------------------- *)
\* float(value) succeeds
IsFloat(value) == value \in {"1", "60"}
FloatOf(value) == IF value = "1" THEN 1 ELSE 60

\* _resolve_slo_threshold
ResolveSloThreshold(env) ==
    LET value == IF env = "unset" THEN "60" ELSE env
    IN  IF IsFloat(value) THEN FloatOf(value) ELSE FallbackSloSec

\* send_alert("job_failed", {"job_id": job_id, "reason": str(exc)})
JobFailedAlert(r, job_id, exc) ==
    [event |-> "job_failed", job_id |-> job_id, key |-> "reason", cause |-> exc,
     duration_sec |-> 0, threshold_sec |-> 0, by |-> r]

\* _check_job_duration alerting from the threshold on
CheckJobDurationFromThreshold(sent, r, job_id, now, start_ts, threshold) ==
    LET duration == now - start_ts
    IN  IF duration >= threshold
        THEN Append(sent, [event |-> "latency_slo_miss", job_id |-> job_id,
                           key |-> "", cause |-> "", duration_sec |-> duration,
                           threshold_sec |-> threshold, by |-> r])
        ELSE sent

\* _check_job_duration, appending to the calls of send_alert
CheckJobDuration(sent, r, job_id, now, start_ts, threshold) ==
    LET duration == now - start_ts
    IN  IF duration > threshold
        THEN Append(sent, [event |-> "latency_slo_miss", job_id |-> job_id,
                           key |-> "", cause |-> "", duration_sec |-> duration,
                           threshold_sec |-> threshold, by |-> r])
        ELSE sent

\* a retry policy that stops one attempt later
StopAfterFourAttempts(attempt_number) == attempt_number >= 4

\* tenacity's stop=stop_after_attempt(3)
StopAfterAttempt(attempt_number) == attempt_number >= MaxAttempts

\* every job function storing its failure under the key error
FailureResultErrorKey(f, exc) == Doc("error", exc)

\* the result document a job function stores when the unit of work failed
FailureResult(f, exc) ==
    IF f = "a2a" THEN Doc("reason", exc) ELSE Doc("error", exc)

\* _execute_plan_job calling crew.kickoff outside its try block
HandlesExceptionButPlan(f) == f \in {"cgo", "a2a", "webdev"}

\* the unit of work runs inside try/except Exception
HandlesException(f) == f \in {"cgo", "a2a", "webdev", "plan"}

\* the job function's locals after its unit of work raised for good
Raised(q, exc) ==
    IF HandlesException(q.feature)
    THEN [q EXCEPT !.exc = exc, !.pc = "set_failed"]
    ELSE [q EXCEPT !.escaped = TRUE, !.pc = "end"]

\* the job function's locals after one more invocation of the unit of work
Tried(q, outcome, val) ==
    [q EXCEPT !.attempts = @ + 1, !.tried = [outcome |-> outcome, val |-> val],
              !.reinvoked = @ \/ q.tried.outcome = "ok"]

\* _run_marketing_campaign_job up to the call of _execute_marketing_campaign
RunStart(r) ==
    /\ Free(r)
    /\ req[r].pc = "bg"
    /\ req[r].feature = "cgo"
    /\ \E env \in SloEnvValues :
          req' = [req EXCEPT ![r].pc = "attempt",
                             ![r].threshold = ResolveSloThreshold(env),
                             ![r].start = clock]
    /\ owner' = r
    /\ UNCHANGED <<bootVars, copyVars, opsVars, auditVars, backend, routes, jobs, redis, clock, alerts, overlap,
                   calls, last>>

\* one attempt of _execute_marketing_campaign under @retry: cgo_crew.kickoff
\* returns or raises; after a raise tenacity stops or sleeps (time.sleep, the
\* event loop is held) and tries again
Attempt(r) ==
    /\ Free(r)
    /\ req[r].pc = "attempt"
    /\ \E dt \in {0, 1} :
        /\ clock + dt <= MaxClock
        /\ clock' = clock + dt
        /\ \/ \E v \in Values :
                 req' = [req EXCEPT ![r] =
                    [Tried(req[r], "ok", v) EXCEPT !.out = Doc("ok", v),
                              !.pc = "set_done"]]
           \/ \E c \in Causes :
                 req' = [req EXCEPT ![r] =
                    IF StopAfterAttempt(req[r].attempts + 1)
                    THEN Raised(Tried(req[r], "raise", c), c)
                    ELSE Tried(req[r], "raise", c)]
    /\ owner' = IF req'[r].pc = "attempt" THEN r
                ELSE IF req'[r].pc = "end" THEN 0 ELSE Hold(r)
    /\ UNCHANGED <<bootVars, copyVars, opsVars, auditVars, backend, routes, jobs, redis, alerts, overlap, calls, last>>

\* await job_store.set_status(job_id, "running") of the a2a, webdev and mktg jobs
SetRunning(r) ==
    /\ Free(r)
    /\ req[r].pc = "bg"
    /\ req[r].feature # "cgo"
    /\ IF AtRedisRead(r) THEN RedisRead(r)
       ELSE /\ StoreSetStatusWrite(r, "running", Null)
            /\ req' = [req EXCEPT ![r] =
                  [@ EXCEPT !.io = "", !.got = None,
                            !.pc = IF req[r].feature \in {"a2a", "publish"}
                                   THEN "sleep" ELSE "work",
                            !.writes = Append(@, [status |-> "running", result |-> Null])]]
            \* asyncio.sleep suspends the task; crew.kickoff is a plain call
            /\ owner' = IF req[r].feature \in {"a2a", "publish"} THEN 0 ELSE r
            /\ UNCHANGED <<bootVars, copyVars, opsVars, auditVars, backend, routes, clock, alerts, overlap, calls, last>>

\* _run_a2a_job after its sleep: the command is carried out or refused
A2AWork(r) ==
    /\ Free(r)
    /\ req[r].pc = "sleep"
    /\ req[r].feature = "a2a"
    /\ req' = [req EXCEPT ![r] =
          CASE req[r].arg = "ping" ->
                 [Tried(req[r], "ok", "pong") EXCEPT !.out = Doc("status", "pong"), !.pc = "set_done"]
            [] req[r].arg = "noop" ->
                 [Tried(req[r], "ok", "noop") EXCEPT !.out = Doc("status", "noop"), !.pc = "set_done"]
            [] OTHER ->
                 Raised(Tried(req[r], "raise", "Unsupported A2A command"),
                        "Unsupported A2A command")]
    /\ owner' = IF req'[r].pc = "end" THEN 0 ELSE Hold(r)
    /\ UNCHANGED <<bootVars, copyVars, opsVars, auditVars, backend, routes, jobs, redis, clock, alerts, overlap,
                   calls, last>>

\* _execute_publish_job after asyncio.sleep(0): the result is a literal
PublishWork(r) ==
    /\ Free(r)
    /\ req[r].pc = "sleep"
    /\ req[r].feature = "publish"
    /\ req' = [req EXCEPT ![r] =
          [Tried(req[r], "ok", "queued") EXCEPT !.out = Doc("status", "queued"), !.pc = "set_done"]]
    /\ owner' = Hold(r)
    /\ UNCHANGED <<bootVars, copyVars, opsVars, auditVars, backend, routes, jobs, redis, clock, alerts, overlap,
                   calls, last>>

\* crew.kickoff(payload) of _execute_webdev_job and _execute_plan_job
CrewWork(r) ==
    /\ Free(r)
    /\ req[r].pc = "work"
    /\ \/ \E v \in Values :
             req' = [req EXCEPT ![r] =
                [Tried(req[r], "ok", v) EXCEPT !.out = Doc("summary", v),
                          !.pc = "set_done"]]
       \/ \E c \in Causes :
             req' = [req EXCEPT ![r] =
                Raised(Tried(req[r], "raise", c), c)]
    /\ owner' = IF req'[r].pc = "end" THEN 0 ELSE Hold(r)
    /\ UNCHANGED <<bootVars, copyVars, opsVars, auditVars, backend, routes, jobs, redis, clock, alerts, overlap,
                   calls, last>>

\* await job_store.set_status(job_id, "done", result) and what follows it
SetDone(r) ==
    /\ Free(r)
    /\ req[r].pc = "set_done"
    /\ IF AtRedisRead(r) THEN RedisRead(r)
       ELSE /\ StoreSetStatusWrite(r, "done", req[r].out)
            /\ req' = [req EXCEPT ![r] =
                  [@ EXCEPT !.io = "", !.got = None, !.pc = "end",
                            !.start = 0, !.threshold = 0,
                            !.writes = Append(@, [status |-> "done", result |-> req[r].out])]]
            /\ alerts' = IF req[r].feature = "cgo"
                         THEN CheckJobDuration(alerts, r, req[r].job, clock,
                                               req[r].start, req[r].threshold)
                         ELSE alerts
            /\ owner' = 0
            /\ UNCHANGED <<bootVars, copyVars, opsVars, auditVars, backend, routes, clock, overlap, calls, last>>

\* await job_store.set_status(job_id, "failed", {...}) and what follows it
SetFailed(r) ==
    /\ Free(r)
    /\ req[r].pc = "set_failed"
    /\ IF AtRedisRead(r) THEN RedisRead(r)
       ELSE /\ StoreSetStatusWrite(r, "failed", FailureResult(req[r].feature, req[r].exc))
            /\ req' = [req EXCEPT ![r] =
                  [@ EXCEPT !.io = "", !.got = None, !.pc = "end",
                            !.start = 0, !.threshold = 0,
                            !.writes = Append(@, [status |-> "failed",
                                  result |-> FailureResult(req[r].feature, req[r].exc)])]]
            /\ alerts' = IF req[r].feature = "cgo"
                         THEN CheckJobDuration(
                                Append(alerts, JobFailedAlert(r, req[r].job, req[r].exc)),
                                r, req[r].job, clock, req[r].start, req[r].threshold)
                         ELSE alerts
            /\ owner' = 0
            /\ UNCHANGED <<bootVars, copyVars, opsVars, auditVars, backend, routes, clock, overlap, calls, last>>

Next ==
    \/ \E r \in ReqIds : Submit(r)
    \/ \E r \in ReqIds : PlanGet(r)
    \/ \E r \in ReqIds : Get(r)
    \/ \E r \in ReqIds : Create(r)
    \/ \E r \in ReqIds : SetInitial(r)
    \/ \E r \in ReqIds : RunStart(r)
    \/ \E r \in ReqIds : Attempt(r)
    \/ \E r \in ReqIds : SetRunning(r)
    \/ \E r \in ReqIds : A2AWork(r)
    \/ \E r \in ReqIds : PublishWork(r)
    \/ \E r \in ReqIds : CrewWork(r)
    \/ \E r \in ReqIds : SetDone(r)
    \/ \E r \in ReqIds : SetFailed(r)

Spec == Init /\ [][Next]_vars

(* --------------------------- job store failures ----------------------- *)
MaxStoreFaults == 1

\* the set_status calls of each job function that sit inside its try block
WriteInsideTry(f, pc) == f = "a2a" /\ pc = "set_done"

\* the job function of request r awaits a set_status
AtStoreWrite(r) ==
    \/ req[r].pc = "bg" /\ req[r].feature # "cgo"
    \/ req[r].pc \in {"set_done", "set_failed"}

\* the set_status the job function of request r awaits raises (the Redis
\* server is unreachable): the except block takes over when the call sits in
\* the try block, otherwise the exception leaves the job function
StoreFails(r) ==
    /\ backend = "redis"
    /\ faults < MaxStoreFaults
    /\ Free(r)
    /\ AtStoreWrite(r)
    /\ faults' = faults + 1
    /\ req' = [req EXCEPT ![r] =
          IF WriteInsideTry(req[r].feature, req[r].pc)
          THEN [@ EXCEPT !.io = "", !.got = None, !.exc = "ConnectionError",
                         !.pc = "set_failed"]
          ELSE [@ EXCEPT !.io = "", !.got = None, !.escaped = TRUE, !.pc = "end"]]
    /\ owner' = 0
    /\ UNCHANGED <<bootVars, copyVars, environ, sending, auditVars, backend, routes, jobs,
                   redis, clock, alerts, overlap, calls, last>>

\* the application on a Redis store that may fail
InitInfra == Init /\ backend = "redis"

NextInfra ==
    \/ \E r \in ReqIds : StoreFails(r)
    \/ Next

SpecInfra == InitInfra /\ [][NextInfra]_vars

(* ------------------------------- startup ------------------------------ *)
\* the module body of app.main has run: the store chosen by get_job_store is
\* in app.state and the startup hook has not run yet
InitBoot ==
    /\ backend \in {"memory", "redis"}
    /\ routes = Features
    /\ jobs = <<>>
    /\ redis = <<>>
    /\ req = [r \in 1..MaxRequests |-> NewReq]
    /\ owner = 0
    /\ clock = 0
    /\ alerts = <<>>
    /\ overlap = {}
    /\ calls = 0
    /\ last = NoCall
    /\ started = FALSE
    /\ pinged = ""
    /\ app_state = [job_store_backend |-> backend, redis_connected |-> backend = "redis"]
    /\ NothingShared
    /\ NoAudit
    /\ NoOps

\* ensure_job_store_connection: the store, recorded backend and flag it leaves
\* in app.state for the configured store and the outcome of its ping
EnsureJobStoreConnection(store, ok) ==
    IF ok THEN [store |-> store, backend |-> store, redis_connected |-> store = "redis"]
    ELSE [store |-> "memory", backend |-> "memory", redis_connected |-> FALSE]

\* the server runs the startup hook before it serves requests; the ping of
\* the in-memory store cannot fail, the ping of Redis can
Startup(ok) ==
    /\ ~started
    /\ backend = "memory" => ok
    /\ LET state == EnsureJobStoreConnection(backend, ok)
       IN /\ backend' = state.store
          /\ app_state' = [job_store_backend |-> state.backend,
                           redis_connected |-> state.redis_connected]
    /\ jobs' = IF ok THEN jobs ELSE <<>>
    /\ pinged' = IF ok THEN "ok" ELSE "failed"
    /\ started' = TRUE
    /\ UNCHANGED <<copyVars, opsVars, auditVars, routes, redis, req, owner, clock, alerts,
                   overlap, calls, last>>

\* GET /healthz and GET /api/v1/health
Healthz == [status |-> "ok"]
HealthCheck == [status |-> "healthy", service |-> "sodmaster-c-unit"]

NextBoot ==
    \/ \E ok \in BOOLEAN : Startup(ok)
    \/ Next

SpecBoot == InitBoot /\ [][NextBoot]_vars

\* three requests to the mktg routes (plan, publish) only
InitMktg ==
    /\ backend \in {"memory", "redis"}
    /\ routes = {"plan", "publish"}
    /\ jobs = <<>>
    /\ redis = <<>>
    /\ req = [r \in 1..MaxMktgRequests |-> NewReq]
    /\ owner = 0
    /\ clock = 0
    /\ alerts = <<>>
    /\ overlap = {}
    /\ calls = 0
    /\ last = NoCall
    /\ Booted
    /\ NothingShared
    /\ NoAudit
    /\ NoOps

NextMktg ==
    \/ \E r \in ReqIds : Submit(r)
    \/ \E r \in ReqIds : PlanGet(r)
    \/ \E r \in ReqIds : Get(r)
    \/ \E r \in ReqIds : Create(r)
    \/ \E r \in ReqIds : SetInitial(r)
    \/ \E r \in ReqIds : SetRunning(r)
    \/ \E r \in ReqIds : PublishWork(r)
    \/ \E r \in ReqIds : CrewWork(r)
    \/ \E r \in ReqIds : SetDone(r)
    \/ \E r \in ReqIds : SetFailed(r)

SpecMktg == InitMktg /\ [][NextMktg]_vars

\* the a2a and mktg/publish routes on a store that holds the finished job j1
\* of an earlier POST /mktg/plan {job_id: "j1"}
PlanRecord == [id |-> "j1", payload |-> Payload(TypeOf("plan"), "j1", ""),
               status |-> "done", result |-> Doc("summary", "v1")]

InitShared ==
    /\ backend \in {"memory", "redis"}
    /\ routes = {"a2a", "publish"}
    /\ jobs = IF backend = "memory" THEN ("j1" :> PlanRecord) ELSE <<>>
    /\ redis = IF backend = "redis" THEN (Key("j1") :> Dumps(PlanRecord)) ELSE <<>>
    /\ req = [r \in 1..MaxRequests |-> NewReq]
    /\ owner = 0
    /\ clock = 0
    /\ alerts = <<>>
    /\ overlap = {}
    /\ calls = 0
    /\ last = NoCall
    /\ Booted
    /\ NothingShared
    /\ NoAudit
    /\ NoOps

NextShared ==
    \/ \E r \in ReqIds : Submit(r)
    \/ \E r \in ReqIds : PlanGet(r)
    \/ \E r \in ReqIds : Get(r)
    \/ \E r \in ReqIds : Create(r)
    \/ \E r \in ReqIds : SetInitial(r)
    \/ \E r \in ReqIds : SetRunning(r)
    \/ \E r \in ReqIds : A2AWork(r)
    \/ \E r \in ReqIds : PublishWork(r)
    \/ \E r \in ReqIds : SetDone(r)
    \/ \E r \in ReqIds : SetFailed(r)

SpecShared == InitShared /\ [][NextShared]_vars

(* ------------------- the store called directly ------------------------ *)
\* One client calls create, set_status and get on a store of either backend,
\* one call after the other (app/infra/job_store.py, tests/test_job_store.py).
StoreStatuses == {"accepted", "running", "done", "failed"}
StorePayloads == {Payload("t", "", "a"), Payload("t", "", "b")}
StoreResults == {Null, Doc("ok", "v1")}

InitStore ==
    /\ backend \in {"memory", "redis"}
    /\ routes = {}
    /\ jobs = <<>>
    /\ redis = <<>>
    /\ req = <<>>
    /\ owner = 0
    /\ clock = 0
    /\ alerts = <<>>
    /\ overlap = {}
    /\ calls = 0
    /\ last = NoCall
    /\ Booted
    /\ NothingShared
    /\ NoAudit
    /\ NoOps

\* await store.create(job_id, payload): neither backend raises
CallCreate(job_id, payload) ==
    /\ calls < MaxCalls
    /\ StoreCreate(job_id, payload)
    /\ calls' = calls + 1
    /\ last' = [op |-> "create", id |-> job_id, payload |-> payload, status |-> "",
                result |-> Null, before |-> StoreGet(job_id), after |-> None, err |-> ""]
    /\ UNCHANGED <<bootVars, copyVars, opsVars, auditVars, backend, routes, req, owner, clock, alerts, overlap>>

\* await store.set_status(job_id, status, result): neither backend raises
CallSetStatus(job_id, status, result) ==
    /\ calls < MaxCalls
    /\ IF backend = "memory"
       THEN jobs' = InMemorySetStatus(jobs, job_id, status, result) /\ UNCHANGED redis
       ELSE /\ redis' = RedisSetStatusWrite(redis, job_id, RedisGet(redis, job_id),
                                            status, result)
            /\ UNCHANGED jobs
    /\ calls' = calls + 1
    /\ last' = [op |-> "set_status", id |-> job_id, payload |-> NullPayload,
                status |-> status, result |-> result, before |-> StoreGet(job_id),
                after |-> None, err |-> ""]
    /\ UNCHANGED <<bootVars, copyVars, opsVars, auditVars, backend, routes, req, owner, clock, alerts, overlap>>

\* await store.get(job_id)
CallGet(job_id) ==
    /\ calls < MaxCalls
    /\ calls' = calls + 1
    /\ last' = [op |-> "get", id |-> job_id, payload |-> NullPayload, status |-> "",
                result |-> Null, before |-> StoreGet(job_id),
                after |-> StoreGet(job_id), err |-> ""]
    /\ UNCHANGED <<bootVars, copyVars, opsVars, auditVars, backend, routes, jobs, redis, req, owner, clock, alerts, overlap>>

NextStore ==
    \/ \E i \in JobIds, p \in StorePayloads : CallCreate(i, p)
    \/ \E i \in JobIds, st \in StoreStatuses, res \in StoreResults :
           CallSetStatus(i, st, res)
    \/ \E i \in JobIds : CallGet(i)

SpecStore == InitStore /\ [][NextStore]_vars

(* ------------------- the two backends side by side -------------------- *)
\* One sequence of calls is made on an InMemoryJobStore (jobs) and on a
\* RedisJobStore (redis) alike.
\* a result json cannot encode, such as the output object of a crew
ObjResult == [tag |-> "obj", key |-> "", val |-> "v1"]
TwinResults == StoreResults \cup {ObjResult}

InitTwin == InitStore /\ backend = "memory"

TwinCreate(job_id, payload) ==
    /\ calls < MaxCalls
    /\ jobs' = InMemoryCreate(jobs, job_id, payload)
    /\ redis' = RedisCreate(redis, job_id, payload)
    /\ calls' = calls + 1
    /\ last' = [op |-> "create", id |-> job_id, payload |-> payload, status |-> "",
                result |-> Null, before |-> InMemoryGet(jobs, job_id), after |-> None,
                err |-> ""]
    /\ UNCHANGED <<bootVars, copyVars, opsVars, auditVars, backend, routes, req, owner, clock, alerts, overlap>>

TwinSetStatus(job_id, status, result) ==
    /\ calls < MaxCalls
    /\ jobs' = InMemorySetStatus(jobs, job_id, status, result)
    /\ redis' = RedisSetStatusWrite(redis, job_id, RedisGet(redis, job_id), status, result)
    /\ calls' = calls + 1
    /\ last' = [op |-> "set_status", id |-> job_id, payload |-> NullPayload,
                status |-> status, result |-> result,
                before |-> InMemoryGet(jobs, job_id), after |-> None, err |-> ""]
    /\ UNCHANGED <<bootVars, copyVars, opsVars, auditVars, backend, routes, req, owner, clock, alerts, overlap>>

TwinGet(job_id) ==
    /\ calls < MaxCalls
    /\ calls' = calls + 1
    /\ last' = [op |-> "get", id |-> job_id, payload |-> NullPayload, status |-> "",
                result |-> Null, before |-> InMemoryGet(jobs, job_id),
                after |-> RedisGet(redis, job_id), err |-> ""]
    /\ UNCHANGED <<bootVars, copyVars, opsVars, auditVars, backend, routes, jobs, redis, req, owner, clock, alerts, overlap>>

NextTwin ==
    \/ \E i \in JobIds, p \in StorePayloads : TwinCreate(i, p)
    \/ \E i \in JobIds, st \in StoreStatuses, res \in TwinResults :
           TwinSetStatus(i, st, res)
    \/ \E i \in JobIds : TwinGet(i)

SpecTwin == InitTwin /\ [][NextTwin]_vars

(* ------------------------------ properties ---------------------------- *)
Responded(r) == req[r].resp # NoResp

\* the handler of request r found a record under the caller's id
Replayed(r) == Responded(r) /\ req[r].existing # None

\* the submissions of job id i for which background work was scheduled
Started(i) == {r \in ReqIds : req[r].job = i /\ req[r].scheduled}

\* the submissions of job id i whose handler called create
Creators(i) ==
    {r \in ReqIds : req[r].job = i /\ req[r].writes # <<>>
                    /\ req[r].writes[1].status = "pending"}

\* the store's record of job i carries status st and result res
Stored(i, st, res) == StoreGet(i).status = st /\ StoreGet(i).result = res

\* the position of a status in pending < accepted < running < {done, failed}
Rank(st) ==
    CASE st = "pending" -> 1
      [] st = "accepted" -> 2
      [] st = "running" -> 3
      [] st \in {"done", "failed"} -> 4
      [] OTHER -> 0

\* C1: a submission that finds a record under the caller's job id answers with
\* that record's status and result and the caller's id, writes nothing to the
\* store and schedules no work; submissions of one id that do not overlap
\* start background work at most once.
C1_IdempotentReplay ==
    /\ \A r \in ReqIds :
          Replayed(r) =>
             /\ req[r].resp.status = StatusOf(req[r].existing)
             /\ req[r].resp.result = req[r].existing.result
             /\ req[r].resp.job_id = req[r].jid
             /\ req[r].writes = <<>>
             /\ ~req[r].scheduled
             /\ req[r].attempts = 0
    /\ \A i \in JobIds \ overlap : Cardinality(Started(i)) <= 1

\* C2: however the submissions of one job id interleave, at most one of them
\* creates the record and background work is started for at most one of them.
C2_ExactlyOnce ==
    \A i \in JobIds :
       /\ Cardinality(Creators(i)) <= 1
       /\ Cardinality(Started(i)) <= 1

\* C3: between two moments at which a status poll can be served, the status
\* the poll of a job reports never moves backwards in
\* pending < accepted < running < {done, failed}, and a terminal status
\* is never replaced by the other terminal status.
C3_MonotonicStatus ==
    [][(owner = 0 /\ owner' = 0) =>
          \A i \in JobIds :
             /\ Rank(PollAnswer(i)') >= Rank(PollAnswer(i))
             /\ Rank(PollAnswer(i)) = 4 => PollAnswer(i)' = PollAnswer(i)]_vars

\* C4: a submission that names no existing job is answered 202 with status
\* accepted and the job id; one that names an existing job is answered 200
\* with that job's status, id and result.
C4_RequestContract ==
    \A r \in ReqIds :
       (Responded(r) /\ req[r].resp.code # 409) =>
          IF req[r].existing = None
          THEN /\ req[r].resp.code = 202
               /\ req[r].resp.status = "accepted"
               /\ req[r].resp.job_id = req[r].job
          ELSE /\ req[r].resp.code = 200
               /\ req[r].resp.status = StatusOf(req[r].existing)
               /\ req[r].resp.job_id = req[r].jid
               /\ req[r].resp.result = req[r].existing.result
               /\ req[r].resp.field = "result"

\* the job function of request r has returned (or raised)
Finished(r) == req[r].scheduled /\ req[r].pc = "end"

\* the unit of work of request r raised on its last allowed attempt
Exhausted(r) == Finished(r) /\ req[r].tried.outcome = "raise"

\* the last set_status the run of request r issued
LastWrite(r) == req[r].writes[Len(req[r].writes)]

\* no other submission of the job id of request r was in flight with it
Alone(r) == req[r].job \notin overlap

\* the step in which the job function of request r issues its last set_status
StoresTerminal(r) == req[r].pc \in {"set_done", "set_failed"} /\ req'[r].pc = "end"

\* after the step the store's record of job i carries status st and result res
StoredAfter(i, st, res) == StoreGet(i)'.status = st /\ StoreGet(i)'.result = res

\* C5: a CGO job run invokes the unit of work at most 3 times, never after an
\* invocation returned, and again only after a raise; its last set_status
\* leaves the store holding done with the returned result when an invocation
\* among the first 3 returned, and failed otherwise.
C5_RetryBound ==
    /\ [](\A r \in ReqIds :
             req[r].feature = "cgo" =>
                /\ req[r].attempts <= 3
                /\ ~req[r].reinvoked
                /\ req[r].attempts >= 2 /\ req[r].pc = "attempt" =>
                      req[r].tried.outcome = "raise"
                /\ req[r].pc = "set_done" => req[r].tried.outcome = "ok"
                /\ req[r].pc = "set_failed" =>
                      req[r].tried.outcome = "raise" /\ req[r].attempts = 3
                /\ Finished(r) =>
                      /\ req[r].attempts >= 1
                      /\ LastWrite(r).status = "done" <=> req[r].tried.outcome = "ok"
                      /\ LastWrite(r).status \in {"done", "failed"})
    /\ [][\A r \in ReqIds :
             (req[r].feature = "cgo" /\ StoresTerminal(r)) =>
                IF req[r].tried.outcome = "ok"
                THEN StoredAfter(req[r].job, "done", Doc("ok", req[r].tried.val))
                ELSE StoreGet(req[r].job)'.status = "failed"]_vars

\* a CGO run that failed twice and succeeded on its third attempt is done
C5_Witness ==
    \E r \in ReqIds :
       /\ req[r].feature = "cgo" /\ Finished(r) /\ Alone(r)
       /\ req[r].attempts = 3 /\ req[r].tried.outcome = "ok"
       /\ Stored(req[r].job, "done", Doc("ok", req[r].tried.val))

IsSloMiss(a) == a.event = "latency_slo_miss"

\* the step in which the CGO run of request r stores its terminal status
TerminalStep(r) ==
    /\ req[r].feature = "cgo"
    /\ req[r].pc \in {"set_done", "set_failed"}
    /\ req'[r].pc = "end"

\* the latency_slo_miss alerts sent during a step
SloMissesSent == SelectSeq(SubSeq(alerts', Len(alerts) + 1, Len(alerts')), IsSloMiss)

C9_FailureAlert ==
    \A r \in ReqIds :
       (req[r].feature = "cgo" /\ Exhausted(r)) =>
          LET Mine(a) == a.by = r /\ a.event = "job_failed"
              mine == SelectSeq(alerts, Mine)
          IN  /\ Len(mine) = 1
              /\ mine[1].job_id = req[r].job
              /\ mine[1].key = "error"
              /\ mine[1].cause = req[r].tried.val

\* C10: a create on an id the store holds fails with AlreadyExists and leaves
\* the record as it was.
C10_CreateExisting ==
    (last.op = "create" /\ last.before # None) =>
       /\ last.err = "AlreadyExists"
       /\ StoreGet(last.id) = last.before

\* C11: a set_status on an id the store does not hold fails with NotFound and
\* creates no record.
C11_SetStatusMissing ==
    (last.op = "set_status" /\ last.before = None) =>
       /\ last.err = "NotFound"
       /\ StoreGet(last.id) = None

CopyNames == <<"c1", "c2", "c3", "c4", "c5">>

\* a reference to the dict object o
Ref(o) == [tag |-> "ref", key |-> "", val |-> o]

\* the contents reachable from the dict object o: its own entry and its nested one
Deep(h, o) ==
    Doc(h[o].val, IF h[o].child = "" THEN "" ELSE h[h[o].child].val)

\* what a json reader sees of a field: the contents behind a reference
Resolve(h, x) ==
    IF x = NullPayload \/ x = Null THEN x
    ELSE IF x.tag = "ref" THEN Deep(h, x.val) ELSE x

\* what await store.get(job_id) returns, nested documents included
GetView(job_id) ==
    LET rec == StoreGet(job_id)
    IN  IF rec = None THEN None
        ELSE [rec EXCEPT !.payload = Resolve(heap, @), !.result = Resolve(heap, @)]

InitCopy ==
    /\ backend \in {"memory", "redis"}
    /\ routes = {}
    /\ jobs = <<>>
    /\ redis = <<>>
    /\ req = <<>>
    /\ owner = 0
    /\ clock = 0
    /\ alerts = <<>>
    /\ overlap = {}
    /\ calls = 0
    /\ last = NoCall
    /\ Booted
    /\ heap = [o \in {"p", "n", "r"} |->
                 [val |-> "a", child |-> IF o = "p" THEN "n" ELSE ""]]
    /\ held = None
    /\ NoAudit
    /\ NoOps

CopyCall(op, job_id) ==
    [op |-> op, id |-> job_id, payload |-> NullPayload, status |-> "", result |-> Null,
     before |-> StoreGet(job_id), after |-> None, err |-> ""]

\* payload = {..., "n": {...}}; await store.create(job_id, payload)
SharedCreate(job_id) ==
    /\ calls < MaxCalls
    /\ LET copy == CopyNames[calls + 1] IN
       IF backend = "memory"
       THEN /\ heap' = (copy :> heap["p"]) @@ heap
            /\ jobs' = InMemoryCreate(jobs, job_id, Ref(copy))
            /\ UNCHANGED redis
       ELSE /\ redis' = RedisCreate(redis, job_id, Deep(heap, "p"))
            /\ UNCHANGED <<heap, jobs>>
    /\ calls' = calls + 1
    /\ last' = CopyCall("create", job_id)
    /\ UNCHANGED <<bootVars, opsVars, auditVars, held, backend, routes, req, owner, clock,
                   alerts, overlap>>

\* await store.set_status(job_id, "done", r)
SharedSetStatus(job_id) ==
    /\ calls < MaxCalls
    /\ IF backend = "memory"
       THEN jobs' = InMemorySetStatus(jobs, job_id, "done", Ref("r")) /\ UNCHANGED redis
       ELSE /\ redis' = RedisSetStatusWrite(redis, job_id, RedisGet(redis, job_id),
                                            "done", Deep(heap, "r"))
            /\ UNCHANGED jobs
    /\ calls' = calls + 1
    /\ last' = CopyCall("set_status", job_id)
    /\ UNCHANGED <<bootVars, opsVars, auditVars, heap, held, backend, routes, req, owner,
                   clock, alerts, overlap>>

\* job = await store.get(job_id)
SharedGet(job_id) ==
    /\ calls < MaxCalls
    /\ StoreGet(job_id) # None
    /\ held' = StoreGet(job_id)
    /\ calls' = calls + 1
    /\ last' = [CopyCall("get", job_id) EXCEPT !.after = StoreGet(job_id)]
    /\ UNCHANGED <<bootVars, opsVars, auditVars, heap, backend, routes, jobs, redis, req,
                   owner, clock, alerts, overlap>>

\* job["status"] = ...; job["result"] = None: the caller rebinds keys of the
\* record it got
MutateRecord ==
    /\ held # None
    /\ held.status # "tampered"
    /\ held' = [held EXCEPT !.status = "tampered", !.result = Null]
    /\ last' = [NoCall EXCEPT !.op = "mutate"]
    /\ UNCHANGED <<bootVars, opsVars, auditVars, heap, backend, routes, jobs, redis, req,
                   owner, clock, alerts, overlap, calls>>

\* job[field]["k"] = ...: the caller writes into a nested document of the
\* record it got
MutateNested(field) ==
    /\ held # None
    /\ LET x == IF field = "payload" THEN held.payload ELSE held.result IN
       /\ x # Null /\ x # NullPayload
       /\ IF x.tag = "ref"
          THEN /\ heap[x.val].val = "a"
               /\ heap' = [heap EXCEPT ![x.val].val = "b"]
               /\ UNCHANGED held
          ELSE /\ x.key = "a"
               /\ held' = IF field = "payload"
                          THEN [held EXCEPT !.payload.key = "b"]
                          ELSE [held EXCEPT !.result.key = "b"]
               /\ UNCHANGED heap
    /\ last' = [NoCall EXCEPT !.op = "mutate"]
    /\ UNCHANGED <<bootVars, opsVars, auditVars, backend, routes, jobs, redis, req,
                   owner, clock, alerts, overlap, calls>>

\* payload["k"] = ... or payload["n"]["k"] = ... after create(job_id, payload)
MutatePayload(o) ==
    /\ calls > 0
    /\ heap[o].val = "a"
    /\ heap' = [heap EXCEPT ![o].val = "b"]
    /\ last' = [NoCall EXCEPT !.op = "mutate"]
    /\ UNCHANGED <<bootVars, opsVars, auditVars, held, backend, routes, jobs, redis, req,
                   owner, clock, alerts, overlap, calls>>

NextCopy ==
    \/ \E i \in JobIds : SharedCreate(i)
    \/ \E i \in JobIds : SharedSetStatus(i)
    \/ \E i \in JobIds : SharedGet(i)
    \/ MutateRecord
    \/ \E field \in {"payload", "result"} : MutateNested(field)
    \/ \E o \in {"p", "n"} : MutatePayload(o)

SpecCopy == InitCopy /\ [][NextCopy]_vars

\* C12: no mutation the caller applies to a record it got from get, or to the
\* payload it passed to create, changes what get returns for any job id.
C12_DeepCopy ==
    [][last'.op = "mutate" => \A i \in JobIds : GetView(i)' = GetView(i)]_vars

(* ----------------------------- audit trail ---------------------------- *)
\* The trail of bootstrap_default_audit_trail: callers emit events, subscribe
\* handlers and register C-Units and guardrails (app/audit).
MaxEmits == 2
MaxUserHandlers == 3
HistoryLimit == 1

AuditNames == {"cgo.job.failed", "cgo.job.accepted"}
CUnitIds == {"core.cgo", "core.new"}

\* an event payload: the values under its keys error and event
AuditPayload(error, event) == [error |-> error, event |-> event]
AuditPayloads == {AuditPayload("boom", KeyAbsent), AuditPayload(KeyAbsent, "spoof")}

\* AuditEvent(name=..., c_unit=..., actor="test", subject="job-1", payload=...)
AuditEvent(name, c_unit, payload) ==
    [kind |-> "AuditEvent", name |-> name, c_unit |-> c_unit, actor |-> "test",
     subject |-> "job-1", severity |-> "info", payload |-> payload,
     guardrail_id |-> "", reason |-> ""]

\* the events callers emit: a failed job with each payload, an accepted job,
\* and an event of a C-Unit that bootstrap does not register
AuditEvents ==
    {AuditEvent("cgo.job.failed", "core.cgo", pl) : pl \in AuditPayloads}
      \cup {AuditEvent("cgo.job.accepted", "core.cgo", AuditPayload(KeyAbsent, KeyAbsent)),
            AuditEvent("cgo.job.failed", "core.new", AuditPayload("boom", KeyAbsent))}

\* the C-Units of bootstrap_default_audit_trail
DefaultCUnits == {"core.cgo", "core.a2a", "core.ops"}

IsViolation(event) == event.kind = "GuardrailViolation"

\* dict.get(key, default) on a payload
PayloadGet(value, default) == IF value = KeyAbsent THEN default ELSE value

\* the guardrails of bootstrap_default_audit_trail and two a caller registers
DefaultGuardrails == <<"cgo-job-failure", "a2a-command-failure">>
ExtraGuardrails == {"custom-low", "custom-critical"}

GuardrailSeverity(g) ==
    CASE g = "custom-low" -> "low"
      [] g = "custom-critical" -> "critical"
      [] OTHER -> "high"

GuardrailPredicate(g, event) ==
    CASE g = "cgo-job-failure" -> event.name = "cgo.job.failed"
      [] g = "a2a-command-failure" -> event.name = "a2a.command.failed"
      [] g = "custom-low" -> event.name = "cgo.job.failed"
      [] OTHER -> TRUE

\* the predicate or the reason function of the guardrail raises for the event
GuardrailRaises(g, event) == g = "custom-faulty"

GuardrailReason(g, event) ==
    CASE g = "cgo-job-failure" -> PayloadGet(event.payload.error, "Unknown failure")
      [] g = "a2a-command-failure" -> "Unknown failure"
      [] OTHER -> ""

\* {"event": event.name, **event.payload}
ViolationPayload(event) ==
    [event.payload EXCEPT !.event = PayloadGet(event.payload.event, event.name)]

\* Guardrail.evaluate for an event its predicate matches
Evaluate(g, event) ==
    [kind |-> "GuardrailViolation", name |-> "guardrail.violation",
     c_unit |-> event.c_unit, actor |-> event.actor, subject |-> event.subject,
     severity |-> GuardrailSeverity(g), payload |-> ViolationPayload(event),
     guardrail_id |-> g, reason |-> GuardrailReason(g, event)]

\* the handlers AuditTrail.__init__ and bootstrap_default_audit_trail subscribe
Handler(kind, n) == [kind |-> kind, n |-> n]
\* a trail that subscribes its guardrail engine after its sinks
SinksBeforeEngine ==
    <<Handler("log", 1), Handler("metrics", 2), Handler("alert", 3), Handler("engine", 4)>>

DefaultSubscribers ==
    <<Handler("engine", 1), Handler("log", 2), Handler("metrics", 3), Handler("alert", 4)>>

\* the handlers callers subscribe, in this order, named by what they do when
\* invoked: raise, suspend on an await before returning, or return
UserHandlers == <<"raises", "suspends", "returns">>
UserHandlerKinds == {UserHandlers[i] : i \in DOMAIN UserHandlers}

\* _alert_sink: the send_alert call it makes for an event, if any
AlertSink(sent, event, pub) ==
    IF ~IsViolation(event) THEN sent
    ELSE IF event.severity \notin {"high", "critical"} THEN sent
    ELSE Append(sent, [event |-> "guardrail_violation",
                       guardrail_id |-> event.guardrail_id, reason |-> event.reason,
                       name |-> PayloadGet(event.payload.event, "None"),
                       subject |-> event.subject, pub |-> pub])

\* a full deque that drops the new event
DequeAppendKeepingOldest(deque, event, maxlen) ==
    IF Len(deque) < maxlen THEN Append(deque, event) ELSE deque

\* deque(maxlen=history_limit).append(event)
DequeAppend(deque, event, maxlen) ==
    IF maxlen = 0 THEN <<>>
    ELSE IF Len(deque) < maxlen THEN Append(deque, event)
    ELSE Append(Tail(deque), event)

\* an emit that checks nothing
UnknownCUnitNever(c_unit, c_units) == FALSE

\* event.c_unit not in self._c_units
UnknownCUnit(c_unit, c_units) == c_unit \notin c_units

\* except Exception in EventBus.publish
PublishCatchesNothing(outcome) == FALSE

PublishCatches(outcome) == outcome = "raises"

NewTask == [event |-> AuditEvent("", "", AuditPayload(KeyAbsent, KeyAbsent)),
            mode |-> "", pc |-> "new", stack |-> <<>>]

\* a call of EventBus.publish that has reached its loop over handlers, and
\* a call of GuardrailEngine.handle_event in its loop over guardrails
PublishFrame(pub, handlers) == [kind |-> "publish", pub |-> pub, handlers |-> handlers, i |-> 1]
EngineFrame(pub) == [kind |-> "handle_event", pub |-> pub, handlers |-> <<>>, i |-> 1]

TaskIds == DOMAIN tasks

InitAudit ==
    /\ backend = "memory"
    /\ routes = {}
    /\ jobs = <<>>
    /\ redis = <<>>
    /\ req = <<>>
    /\ owner = 0
    /\ clock = 0
    /\ alerts = <<>>
    /\ overlap = {}
    /\ calls = 0
    /\ last = NoCall
    /\ Booted
    /\ NothingShared
    /\ NoOps
    /\ catalog = DefaultCUnits
    /\ guardrails = DefaultGuardrails
    /\ subscribers = DefaultSubscribers
    /\ history = <<>>
    /\ tasks = [t \in 1..MaxEmits |-> NewTask]
    /\ published = <<>>
    /\ delivered = <<>>
    /\ emitted = <<>>

MaxRegistered == 1

\* what invoking a handler does: the sinks and the engine return, a caller's
\* handler returns, raises, or suspends on an await before it returns
HandlerOutcome(handler) ==
    IF handler.kind \in UserHandlerKinds THEN handler.kind ELSE "returns"

\* one call of EventBus.publish: the event, the call of handle_event that
\* made it (0 for emit), the task, the handlers copied under the lock and the
\* guardrails registered at that moment, and whether it has returned
Publication(event, cause, t) ==
    [event |-> event, cause |-> cause, task |-> t, handlers |-> subscribers,
     rules |-> guardrails, done |-> FALSE]

AuditJobVars == <<backend, routes, jobs, redis, req, owner, clock, overlap, calls, last, bootVars,
                  copyVars, opsVars>>

\* a task between two of its steps: its stack of calls, the logs it has
\* written, and whether it goes on, waits on a handler, or died of an exception
Running(stack, pubs, seen, sent) ==
    [stack |-> stack, published |-> pubs, delivered |-> seen, alerts |-> sent,
     status |-> "running"]

TopOf(st) == st.stack[Len(st.stack)]
BelowOf(st) == SubSeq(st.stack, 1, Len(st.stack) - 1)

\* one round of the loop of EventBus.publish: invoke the next handler
Deliver(st, mode) ==
    LET top == TopOf(st)
        handler == top.handlers[top.i]
        event == st.published[top.pub].event
        outcome == HandlerOutcome(handler)
        next == [top EXCEPT !.i = top.i + 1]
    IN [stack |-> IF outcome = "raises" /\ ~PublishCatches(outcome) THEN <<>>
                  ELSE IF handler.kind = "engine" /\ ~IsViolation(event)
                       THEN BelowOf(st) \o <<next, EngineFrame(top.pub)>>
                       ELSE BelowOf(st) \o <<next>>,
        published |-> st.published,
        delivered |-> Append(st.delivered, [pub |-> top.pub, handler |-> handler]),
        alerts |-> IF handler.kind = "alert" THEN AlertSink(st.alerts, event, top.pub)
                   ELSE st.alerts,
        status |-> IF outcome = "raises" /\ ~PublishCatches(outcome) THEN "crashed"
                   ELSE IF outcome = "suspends" /\ mode # "run" THEN "suspended"
                   ELSE "running"]

\* handle_event that evaluates the guardrail and publishes nothing
EvaluateNextSilent(st, t) ==
    [st EXCEPT !.stack = BelowOf(st) \o <<[TopOf(st) EXCEPT !.i = TopOf(st).i + 1]>>]

\* one round of the loop of GuardrailEngine.handle_event over the live list
EvaluateNext(st, t) ==
    LET top == TopOf(st)
        g == guardrails[top.i]
        event == st.published[top.pub].event
        next == [top EXCEPT !.i = top.i + 1]
    IN IF GuardrailRaises(g, event)
       THEN \* evaluate raises out of handle_event into the publish that invoked it
            IF PublishCatches("raises") THEN [st EXCEPT !.stack = BelowOf(st)]
            ELSE [st EXCEPT !.stack = <<>>, !.status = "crashed"]
       ELSE IF GuardrailPredicate(g, event)
       THEN [st EXCEPT
               !.stack = BelowOf(st) \o <<next, PublishFrame(Len(st.published) + 1, subscribers)>>,
               !.published = Append(st.published, Publication(Evaluate(g, event), top.pub, t))]
       ELSE [st EXCEPT !.stack = BelowOf(st) \o <<next>>]

\* a loop ends: publish or handle_event returns to its caller
Return(st) ==
    [st EXCEPT !.stack = BelowOf(st),
               !.published = IF TopOf(st).kind = "publish"
                             THEN [st.published EXCEPT ![TopOf(st).pub].done = TRUE]
                             ELSE st.published]

\* the task runs, without giving up the event loop, until a handler suspends
\* it or its outermost publish returns
RECURSIVE RunTask(_, _, _)
RunTask(st, t, mode) ==
    IF st.status # "running" \/ st.stack = <<>> THEN st
    ELSE LET top == TopOf(st)
             step == IF top.kind = "publish"
                     THEN IF top.i <= Len(top.handlers) THEN Deliver(st, mode)
                          ELSE Return(st)
                     ELSE IF top.i <= Len(guardrails) THEN EvaluateNext(st, t)
                          ELSE Return(st)
         IN CHOOSE end \in {RunTask(next, t, mode) : next \in {step}} : TRUE

\* EventBus.publish(event) called by emit or as the task of publish_nowait
StartPublish(t, event, mode) ==
    RunTask(Running(<<PublishFrame(Len(published) + 1, subscribers)>>,
                    Append(published, Publication(event, 0, t)), delivered, alerts),
            t, mode)

\* where the run left the task; emit appends the event to the history once
\* its publish has returned
Settle(t, st, event, mode) ==
    LET ends == st.status = "running"
        appends == ends /\ mode \in {"emit", "run"}
    IN /\ tasks' = [tasks EXCEPT ![t] =
              [event |-> event, mode |-> mode,
               pc |-> IF ends THEN "done" ELSE st.status, stack |-> st.stack]]
       /\ published' = st.published
       /\ delivered' = st.delivered
       /\ alerts' = st.alerts
       /\ history' = IF appends THEN DequeAppend(history, event, HistoryLimit) ELSE history
       /\ emitted' = IF appends THEN Append(emitted, event) ELSE emitted
       /\ UNCHANGED <<AuditJobVars, catalog, guardrails, subscribers>>

Rejects(t, event, mode) ==
    /\ tasks' = [tasks EXCEPT ![t] = [@ EXCEPT !.event = event, !.mode = mode, !.pc = "raised"]]
    /\ UNCHANGED <<AuditJobVars, alerts, catalog, guardrails, subscribers,
                   history, published, delivered, emitted>>

\* AuditTrail.emit; and emit_nowait without a running loop, which runs the
\* publish in a loop of its own (mode "run")
Emit(t, event, mode) ==
    /\ tasks[t].pc = "new"
    /\ t = 1 \/ tasks[IF t = 1 THEN 1 ELSE t - 1].pc # "new"
    /\ IF UnknownCUnit(event.c_unit, catalog) THEN Rejects(t, event, mode)
       ELSE Settle(t, StartPublish(t, event, mode), event, mode)

\* publish_nowait that returns without scheduling the publish
CreateNoTask(event) ==
    [event |-> event, mode |-> "nowait", pc |-> "done", stack |-> <<>>]

\* loop.create_task(self.publish(event)): the publish waits for its turn
CreateTask(event) ==
    [event |-> event, mode |-> "nowait", pc |-> "scheduled", stack |-> <<>>]

\* AuditTrail.emit_nowait under a running loop
EmitNowait(t, event) ==
    /\ tasks[t].pc = "new"
    /\ t = 1 \/ tasks[IF t = 1 THEN 1 ELSE t - 1].pc # "new"
    /\ IF UnknownCUnit(event.c_unit, catalog) THEN Rejects(t, event, "nowait")
       ELSE /\ tasks' = [tasks EXCEPT ![t] = CreateTask(event)]
            /\ history' = DequeAppend(history, event, HistoryLimit)
            /\ emitted' = Append(emitted, event)
            /\ UNCHANGED <<AuditJobVars, alerts, catalog, guardrails, subscribers,
                           published, delivered>>

\* the task of loop.create_task(self.publish(event)) starts
StartTask(t) ==
    /\ tasks[t].pc = "scheduled"
    /\ Settle(t, StartPublish(t, tasks[t].event, "nowait"), tasks[t].event, "nowait")

\* the handler the task waits on returns, and publish goes on
Resume(t) ==
    /\ tasks[t].pc = "suspended"
    /\ Settle(t, RunTask(Running(tasks[t].stack, published, delivered, alerts),
                         t, tasks[t].mode),
              tasks[t].event, tasks[t].mode)

\* AuditTrail.subscribe
Subscribe(kind) ==
    /\ Len(subscribers) < Len(DefaultSubscribers) + MaxUserHandlers
    /\ kind = UserHandlers[((Len(subscribers) - Len(DefaultSubscribers)) % Len(UserHandlers)) + 1]
    /\ subscribers' = Append(subscribers, Handler(kind, Len(subscribers) + 1))
    /\ UNCHANGED <<AuditJobVars, alerts, catalog, guardrails, history, tasks,
                   published, delivered, emitted>>

\* AuditTrail.register_c_unit
RegisterCUnit(c_unit) ==
    /\ c_unit \notin catalog
    /\ catalog' = catalog \cup {c_unit}
    /\ UNCHANGED <<AuditJobVars, alerts, guardrails, subscribers, history, tasks,
                   published, delivered, emitted>>

\* AuditTrail.register_guardrail
RegisterGuardrail(g) ==
    /\ Len(guardrails) < Len(DefaultGuardrails) + MaxRegistered
    /\ \A i \in DOMAIN guardrails : guardrails[i] # g
    /\ guardrails' = Append(guardrails, g)
    /\ UNCHANGED <<AuditJobVars, alerts, catalog, subscribers, history, tasks,
                   published, delivered, emitted>>

NextAudit ==
    \/ \E t \in TaskIds, event \in AuditEvents, mode \in {"emit", "run"} : Emit(t, event, mode)
    \/ \E t \in TaskIds, event \in AuditEvents : EmitNowait(t, event)
    \/ \E t \in TaskIds : StartTask(t)
    \/ \E t \in TaskIds : Resume(t)
    \/ \E kind \in UserHandlerKinds : Subscribe(kind)
    \/ \E c_unit \in CUnitIds : RegisterCUnit(c_unit)
    \/ \E g \in ExtraGuardrails : RegisterGuardrail(g)

SpecAudit == InitAudit /\ [][NextAudit]_vars

\* the event loop runs every task that is ready, and the awaitable a handler
\* returned completes
LoopRuns == \A t \in 1..MaxEmits : WF_vars(StartTask(t)) /\ WF_vars(Resume(t))

\* emit_nowait with and without a running loop, on a trail whose catalog and
\* guardrails stay as bootstrapped
NextLoop ==
    \/ \E t \in TaskIds, event \in AuditEvents : Emit(t, event, "run")
    \/ \E t \in TaskIds, event \in AuditEvents : EmitNowait(t, event)
    \/ \E t \in TaskIds : StartTask(t)
    \/ \E t \in TaskIds : Resume(t)
    \/ \E kind \in UserHandlerKinds : Subscribe(kind)

SpecLoop == InitAudit /\ [][NextLoop]_vars /\ LoopRuns

\* a trail built like the default one but with a single guardrail, whose
\* predicate raises; callers register further guardrails after it
InitGuard ==
    /\ backend = "memory"
    /\ routes = {}
    /\ jobs = <<>>
    /\ redis = <<>>
    /\ req = <<>>
    /\ owner = 0
    /\ clock = 0
    /\ alerts = <<>>
    /\ overlap = {}
    /\ calls = 0
    /\ last = NoCall
    /\ Booted
    /\ NothingShared
    /\ NoOps
    /\ catalog = DefaultCUnits
    /\ guardrails = <<"custom-faulty">>
    /\ subscribers = DefaultSubscribers
    /\ history = <<>>
    /\ tasks = [t \in 1..MaxEmits |-> NewTask]
    /\ published = <<>>
    /\ delivered = <<>>
    /\ emitted = <<>>

SpecGuard == InitGuard /\ [][NextAudit]_vars

(* --------------------------- audit properties ------------------------- *)
\* the handlers invoked for publication k, in the order of their invocation
HandlersSeen(k) ==
    LET IsOf(d) == d.pub = k
        seen == SelectSeq(delivered, IsOf)
    IN [i \in DOMAIN seen |-> seen[i].handler]

\* C14: a publish invokes the handlers registered when it starts, each exactly
\* once and in registration order, whether or not a handler raises, and it
\* returns normally.
C14_Delivery ==
    /\ [](\A k \in DOMAIN published :
            /\ Len(HandlersSeen(k)) <= Len(published[k].handlers)
            /\ HandlersSeen(k) = SubSeq(published[k].handlers, 1, Len(HandlersSeen(k)))
            /\ published[k].done => HandlersSeen(k) = published[k].handlers)
    /\ [](\A t \in TaskIds :
            /\ tasks[t].pc # "crashed"
            /\ tasks[t].pc = "done" =>
                  \A k \in DOMAIN published : published[k].task = t => published[k].done)
    /\ [][\A k \in DOMAIN published' :
            k \notin DOMAIN published => published'[k].handlers = subscribers]_vars

\* a publish that returned after a handler raised in the middle of its
\* handlers, while a handler subscribed during the publish was not invoked
C14_Witness ==
    \E k \in DOMAIN published :
        /\ published[k].done
        /\ \E j \in DOMAIN published[k].handlers :
              /\ published[k].handlers[j].kind = "raises"
              /\ j < Len(published[k].handlers)
        /\ Len(subscribers) > Len(published[k].handlers)
        /\ HandlersSeen(k) = published[k].handlers
\* the publications of violations of guardrail g made by the evaluation of
\* publication k
ViolationsOf(k, g) ==
    {j \in DOMAIN published :
        /\ IsViolation(published[j].event)
        /\ published[j].cause = k
        /\ published[j].event.guardrail_id = g}

GuardrailIds == {DefaultGuardrails[i] : i \in DOMAIN DefaultGuardrails} \cup ExtraGuardrails

Registered(g, rules) == \E i \in DOMAIN rules : rules[i] = g

C16_ViolationShape ==
    \A j \in DOMAIN published :
       IsViolation(published[j].event) =>
          LET violation == published[j].event
              event == published[published[j].cause].event
          IN /\ violation.c_unit = event.c_unit
             /\ violation.actor = event.actor
             /\ violation.subject = event.subject
             /\ Registered(violation.guardrail_id, guardrails)
             /\ violation.severity = GuardrailSeverity(violation.guardrail_id)
             /\ violation.reason = GuardrailReason(violation.guardrail_id, event)
             /\ violation.payload.error = event.payload.error
             /\ violation.payload.event = event.name
\* C17: emit and emit_nowait of an event whose c_unit is not registered fail
\* before anything else happens: nothing is published, no handler or sink is
\* invoked, no alert is sent and the history is unchanged; every event in the
\* history names a C-Unit that was registered when it was emitted.
C17_UnknownCUnit ==
    /\ [](\A i \in DOMAIN history : history[i].c_unit \in catalog)
    /\ [](\A t \in TaskIds : tasks[t].pc = "raised" =>
             \A k \in DOMAIN published : published[k].task # t)
    /\ [][\A t \in TaskIds :
            (tasks[t].pc = "new" /\ tasks'[t].pc # "new"
                /\ tasks'[t].event.c_unit \notin catalog) =>
               /\ tasks'[t].pc = "raised"
               /\ published' = published /\ delivered' = delivered
               /\ alerts' = alerts /\ history' = history /\ emitted' = emitted]_vars

\* an emit_nowait was refused for its c_unit; the C-Unit was registered later
\* and an event of it is in the history
C17_Witness ==
    /\ \E t \in TaskIds :
          /\ tasks[t].pc = "raised" /\ tasks[t].mode = "nowait"
          /\ tasks[t].event.c_unit = "core.new"
    /\ \E i \in DOMAIN history : history[i].c_unit = "core.new"
LastOf(seq, n) ==
    SubSeq(seq, Len(seq) - (IF Len(seq) < n THEN Len(seq) ELSE n) + 1, Len(seq))

\* the emits that have appended their event: an emit whose publish returned,
\* an emit_nowait as soon as it was accepted
Appended(t) ==
    \/ tasks[t].mode \in {"emit", "run"} /\ tasks[t].pc = "done"
    \/ tasks[t].mode = "nowait" /\ tasks[t].pc \in {"scheduled", "suspended", "done"}

AlertsOf(j) == {i \in DOMAIN alerts : alerts[i].pub = j}

\* C19: a published violation of severity high or critical causes exactly one
\* send_alert tagged guardrail_violation that carries the guardrail id, the
\* reason, the name of the triggering event and the subject; any other
\* published event causes none.
C19_AlertFilter ==
    \A j \in DOMAIN published :
       LET event == published[j].event
       IN IF IsViolation(event) /\ event.severity \in {"high", "critical"}
          THEN /\ Cardinality(AlertsOf(j)) <= 1
               /\ published[j].done => Cardinality(AlertsOf(j)) = 1
               /\ \A i \in AlertsOf(j) :
                     /\ alerts[i].event = "guardrail_violation"
                     /\ alerts[i].guardrail_id = event.guardrail_id
                     /\ alerts[i].reason = event.reason
                     /\ alerts[i].name = published[published[j].cause].event.name
                     /\ alerts[i].subject = event.subject
          ELSE AlertsOf(j) = {}
\* C20: once the startup hook has finished after a failed ping, the job store
\* is the in-memory one, the recorded backend is memory and redis_connected is
\* false, no request reaches the Redis store, and the health probes report
\* healthy; redis_connected is true only when the active store is the Redis
\* store and its ping succeeded.
C20_BackendFallback ==
    /\ (started /\ pinged = "failed") =>
          /\ backend = "memory"
          /\ app_state = [job_store_backend |-> "memory", redis_connected |-> FALSE]
          /\ redis = <<>>
          /\ Healthz.status = "ok" /\ HealthCheck.status = "healthy"
    /\ app_state.redis_connected => (backend = "redis" /\ pinged = "ok")

(* ------------------------------- alerting ----------------------------- *)
\* send_alert posts the alert to each configured webhook (app/ops/alerts.py).
MaxAlertCalls == 2

WebhookNames == <<"TELEGRAM_WEBHOOK", "SLACK_WEBHOOK">>
AlertTriggers == {"job_failed", "latency_slo_miss"}

\* how urlopen ends: it returns a response, or raises URLError (no route,
\* refused, connect timeout), its subclass HTTPError (status 4xx or 5xx), or
\* TimeoutError while it waits for the response, which urllib does not wrap
DeliveryOutcomes == {"ok", "URLError", "HTTPError", "TimeoutError"}

\* _iter_configured_webhooks
IterConfiguredWebhooks(e) ==
    LET IsSet(name) == name \in e
    IN SelectSeq(WebhookNames, IsSet)

\* except urllib.error.URLError
CatchesURLError(outcome) == outcome \in {"URLError", "HTTPError"}

\* the loop of send_alert from webhook i on, and its return
RECURSIVE SendLoop(_, _)
SendLoop(call, i) ==
    IF i > Len(call.webhooks)
    THEN [call EXCEPT !.logged = Append(@, IF call.result THEN "alert_sent"
                                           ELSE "alert_skipped: delivery_failed")]
    ELSE LET outcome == call.outcomes[i]
             posted == [call EXCEPT !.requests = Append(@, call.webhooks[i])]
         IN IF outcome = "ok" THEN SendLoop([posted EXCEPT !.result = TRUE], i + 1)
            ELSE IF CatchesURLError(outcome)
                 THEN SendLoop([posted EXCEPT !.logged = Append(@, "Failed to send alert")],
                               i + 1)
                 ELSE [posted EXCEPT !.raised = outcome, !.result = FALSE]

\* send_alert(trigger, payload) when the deliveries end as outcomes say
SendAlertCall(n, trigger, webhooks, outcomes) ==
    LET call == [n |-> n, trigger |-> trigger, webhooks |-> webhooks, outcomes |-> outcomes,
                 requests |-> <<>>, logged |-> <<>>, result |-> FALSE, raised |-> ""]
    IN IF webhooks = <<>>
       THEN [call EXCEPT !.logged = <<"alert_skipped: no_webhook">>]
       ELSE SendLoop(call, 1)

AlertJobVars == <<backend, routes, jobs, redis, req, owner, clock, alerts, overlap, calls, last,
                  bootVars, copyVars, auditVars>>

InitAlert ==
    /\ backend = "memory"
    /\ routes = {}
    /\ jobs = <<>>
    /\ redis = <<>>
    /\ req = <<>>
    /\ owner = 0
    /\ clock = 0
    /\ alerts = <<>>
    /\ overlap = {}
    /\ calls = 0
    /\ last = NoCall
    /\ Booted
    /\ NothingShared
    /\ NoAudit
    /\ NoOps

\* the operator sets or unsets a webhook variable
Setenv(name) ==
    /\ name \notin environ
    /\ environ' = environ \cup {name}
    /\ UNCHANGED <<AlertJobVars, sending, faults>>

Delenv(name) ==
    /\ name \in environ
    /\ environ' = environ \ {name}
    /\ UNCHANGED <<AlertJobVars, sending, faults>>

SendAlert(trigger, outcomes) ==
    /\ sending.n < MaxAlertCalls
    /\ DOMAIN outcomes = DOMAIN IterConfiguredWebhooks(environ)
    /\ sending' = SendAlertCall(sending.n + 1, trigger, IterConfiguredWebhooks(environ), outcomes)
    /\ UNCHANGED <<AlertJobVars, environ, faults>>

OutcomeLists ==
    UNION {[1..k -> DeliveryOutcomes] : k \in 0..Len(WebhookNames)}

NextAlert ==
    \/ \E name \in {WebhookNames[i] : i \in DOMAIN WebhookNames} : Setenv(name)
    \/ \E name \in {WebhookNames[i] : i \in DOMAIN WebhookNames} : Delenv(name)
    \/ \E trigger \in AlertTriggers, outcomes \in OutcomeLists : SendAlert(trigger, outcomes)

SpecAlert == InitAlert /\ [][NextAlert]_vars

\* C21: send_alert never raises, whatever the outcome of each delivery; it
\* makes one request to every configured webhook, a failed one neither
\* repeated nor stopping the others; it returns True iff a delivery succeeded;
\* and with no webhook configured it makes no request and returns False.
C21_BestEffortAlerting ==
    sending.n > 0 =>
       /\ sending.raised = ""
       /\ sending.requests = sending.webhooks
       /\ sending.result <=> \E i \in DOMAIN sending.outcomes : sending.outcomes[i] = "ok"
       /\ sending.webhooks = <<>> => (sending.requests = <<>> /\ ~sending.result)
\* C22: once the store holds done or failed for a job id, no create or
\* set_status is applied to that id any more: its record never changes again.
C22_TerminalFinal ==
    [][\A i \in JobIds :
          (StoreGet(i) # None /\ Rank(StatusOf(StoreGet(i))) = 4) =>
             StoreGet(i)' = StoreGet(i)]_vars
\* the statuses request r and its background run have written, in order
StatusesWritten(r) == [k \in DOMAIN req[r].writes |-> req[r].writes[k].status]

IsPrefix(a, b) == Len(a) <= Len(b) /\ a = SubSeq(b, 1, Len(a))

\* C23: the statuses written for a job are pending, accepted, running and then
\* one of done and failed, in this order, none skipped or repeated; the
\* handler writes pending and accepted and leaves running to the background
\* run; the 202 response reports the status the handler stored last.
C23_StrictSequence ==
    \A r \in ReqIds :
       /\ \E last_status \in {"done", "failed"} :
             IsPrefix(StatusesWritten(r), <<"pending", "accepted", "running", last_status>>)
       /\ Finished(r) => Len(req[r].writes) = 4
       /\ (req[r].scheduled /\ req[r].pc = "bg") =>
             StatusesWritten(r) = <<"pending", "accepted">>
       /\ (Responded(r) /\ req[r].resp.code = 202 /\ req[r].scheduled) =>
             req[r].resp.status = req[r].writes[2].status
\* C24: when a set_status of a background run raises, the exception does not
\* leave the job function and the job ends stored as failed with a reason; no
\* job whose run has ended is left accepted or running.
C24_NoStuckJob ==
    \A r \in ReqIds :
       /\ ~req[r].escaped
       /\ (Finished(r) /\ Alone(r)) =>
             /\ Rank(StatusOf(StoreGet(req[r].job))) = 4
             /\ req[r].exc = "ConnectionError" =>
                   Stored(req[r].job, "failed", FailureResult(req[r].feature, req[r].exc))
\* C25: when the predicate or reason function of a guardrail raises for an
\* event, each other registered guardrail that matches the event, registered
\* before or after the faulty one, still publishes its violation, and the
\* event is still delivered to every subscriber.
C25_GuardrailIsolation ==
    \A k \in DOMAIN published :
       (published[k].done /\ ~IsViolation(published[k].event)) =>
          /\ HandlersSeen(k) = published[k].handlers
          /\ \A g \in GuardrailIds :
                (/\ Registered(g, published[k].rules)
                 /\ ~GuardrailRaises(g, published[k].event)
                 /\ GuardrailPredicate(g, published[k].event)) =>
                   Cardinality(ViolationsOf(k, g)) = 1
\* the publish made for the event of task t has invoked every handler of its
\* snapshot and has returned
DeliveredToAll(t) ==
    \E k \in DOMAIN published :
       /\ published[k].task = t
       /\ published[k].cause = 0
       /\ published[k].done
       /\ HandlersSeen(k) = published[k].handlers

InUnitOfWork(r) == req[r].pc \in {"attempt", "work"}

\* C27: while the unit of work of a job runs or waits out a retry backoff the
\* event loop is not held by that job, so that other jobs and polls can take
\* their steps.
C27_JobIndependence ==
    \A r \in ReqIds : InUnitOfWork(r) => owner # r
\* C28: after one sequence of create, set_status and get calls made on both
\* stores, every get returns the same record from the Redis store as from the
\* in-memory store: both None, or the same keys with the same values.
C28_BackendEquivalence ==
    last.op = "get" => last.after = last.before
Sinks == {"log", "metrics", "alert"}

\* the positions in the delivery log at which publication k reached a sink
SinkDeliveries(k) ==
    {i \in DOMAIN delivered : delivered[i].pub = k /\ delivered[i].handler.kind \in Sinks}

\* the tasks whose emit or emit_nowait has appended its event to the history
Appenders ==
    {t \in TaskIds : \/ tasks[t].mode \in {"emit", "run"} /\ tasks[t].pc = "done"
                     \/ tasks[t].mode = "nowait" /\ tasks[t].pc # "raised"}

\* C29: in an emit, each violation an event triggers has reached the log,
\* metrics and alert sinks (its publish has returned) before the event itself
\* reaches any of them; the event is appended to the history only when its
\* publish and those of its violations have returned; and the history never
\* receives a violation.
C29_NestedDeliveryOrder ==
    /\ \A k, j \in DOMAIN published :
          (/\ tasks[published[k].task].mode = "emit"
           /\ IsViolation(published[j].event)
           /\ published[j].cause = k
           /\ SinkDeliveries(k) # {}) =>
              /\ published[j].done
              /\ {delivered[i].handler.kind : i \in SinkDeliveries(j)} = Sinks
              /\ \A a \in SinkDeliveries(k), b \in SinkDeliveries(j) : b < a
    /\ Len(emitted) = Cardinality(Appenders)
    /\ \A t \in Appenders :
          tasks[t].mode = "emit" =>
             /\ DeliveredToAll(t)
             /\ \A j \in DOMAIN published : published[j].task = t => published[j].done
    /\ \A i \in DOMAIN emitted : ~IsViolation(emitted[i])
    /\ \A i \in DOMAIN history : ~IsViolation(history[i])

\* an emit has returned whose event triggered a violation that was sent as an
\* alert, after a handler had suspended it
C29_Witness ==
    \E t \in TaskIds, k, j \in DOMAIN published :
       /\ tasks[t].mode = "emit" /\ tasks[t].pc = "done"
       /\ published[k].task = t /\ published[k].cause = 0
       /\ published[j].cause = k /\ IsViolation(published[j].event)
       /\ \E a \in DOMAIN alerts : alerts[a].pub = j
       /\ \E i \in DOMAIN delivered :
             delivered[i].pub = j /\ delivered[i].handler.kind = "suspends"
       /\ tasks[t].event \in {emitted[i] : i \in DOMAIN emitted}
\* GET <feature>/jobs/{job_id}: every feature's poll reads the one store
\* under the caller's id
FeaturePoll(f, job_id) == PollAnswer(job_id)

\* the handler of request r found a record that another route created
ForeignReplay(r) ==
    Replayed(r) /\ req[r].existing.payload.type # TypeOf(req[r].feature)

\* C30: a job one feature created is answered by every feature's poll, and a
\* submission of its id to another feature's run endpoint is answered as a
\* replay of that record (its status and result, the caller's id), creates
\* nothing and invokes no unit of work.
C30_OneNamespace ==
    /\ \A r \in ReqIds, f \in Features :
          (req[r].writes # <<>> /\ StoreGet(req[r].job) # None) =>
             FeaturePoll(f, req[r].job) = StatusOf(StoreGet(req[r].job))
    /\ \A r \in ReqIds :
          ForeignReplay(r) =>
             /\ req[r].resp.code \in {200, 202}
             /\ req[r].resp.job_id = req[r].jid
             /\ req[r].resp.status = StatusOf(req[r].existing)
             /\ req[r].resp.result = req[r].existing.result
             /\ req[r].writes = <<>>
             /\ ~req[r].scheduled
             /\ req[r].attempts = 0

====
